---- MODULE Spec2Model ----
(***************************************************************************)
(* State-machine model of straight_line_zags.py: the squircle-ring pattern *)
(* generator (circle, squircle, AppWindow.redraw), the control panel that  *)
(* feeds it and the save handler.                                          *)
(*                                                                         *)
(* Units.  The three real-valued parameters are spin boxes with two        *)
(* decimals, so they are integers counted in hundredths.  Ring radii are   *)
(* counted in two-hundredths (1 + rad_offset*bidx -/+ bump_size/2 is an    *)
(* integer number of 1/200).  An offset of the schedule is an exact        *)
(* rational <<n, d>> in lowest terms, counted in hundredths of a radian.   *)
(* An angle handed to circle is  off + 2*pi*k/segs  and is kept as the     *)
(* record [off, k, segs]; comparisons against pi and 2*pi use 355/113.     *)
(* Arithmetic is exact: floating-point rounding is not modelled.           *)
(***************************************************************************)
EXTENDS Integers, Sequences, FiniteSets, TLC

VARIABLES widgets, vals, gradient, offsets, ax, canvas, err, pc, lastSave, msg

vars == <<widgets, vals, gradient, offsets, ax, canvas, err, pc, lastSave, msg>>

(***************************************************************************)
(* Bounds of the model                                                     *)
(***************************************************************************)
MaxBumps == 4
MaxRings == 2
MaxRotRings == 2

\* values a user types into the three two-decimal spin boxes (hundredths)
RotOffsetInputs == {0, 628}
RadOffsetInputs == {10}
BumpSizeInputs == {10, 201}

(***************************************************************************)
(* Widget ranges set up by ControlPanel.__init__                           *)
(***************************************************************************)
NumBumpsMin == 2
NumRingsMin == 1
RotRingsMin == 2
RotOffsetMin == 0
RotOffsetMax == 628
RadOffsetMin == 1
BumpSizeMin == 1
SpinBoxMax == 99
DoubleSpinBoxMax == 9999

Fields == {"num_bumps", "num_rings", "rot_rings", "rot_offset", "rad_offset", "bump_size"}

FieldMin(f) ==
  CASE f = "num_bumps" -> NumBumpsMin
    [] f = "num_rings" -> NumRingsMin
    [] f = "rot_rings" -> RotRingsMin
    [] f = "rot_offset" -> RotOffsetMin
    [] f = "rad_offset" -> RadOffsetMin
    [] f = "bump_size" -> BumpSizeMin

FieldMax(f) ==
  CASE f \in {"num_bumps", "num_rings", "rot_rings"} -> SpinBoxMax
    [] f = "rot_offset" -> RotOffsetMax
    [] f \in {"rad_offset", "bump_size"} -> DoubleSpinBoxMax

\* QSpinBox.setValue / user entry: the value is forced into [minimum, maximum]
Clamp_unbounded(f, v) == v
Clamp(f, v) == IF v < FieldMin(f) THEN FieldMin(f)
               ELSE IF v > FieldMax(f) THEN FieldMax(f) ELSE v

\* the spin boxes as ControlPanel.__init__ leaves them for a given vals dict
ControlPanelInit(v) == [f \in Fields |-> Clamp(f, v[f])]

\* the vals dict AppWindow.__init__ builds
DefaultVals ==
  [num_bumps |-> 20, num_rings |-> 40, rot_rings |-> 10,
   rot_offset |-> 10, rad_offset |-> 5, bump_size |-> 10]

(***************************************************************************)
(* Colours.  A gradient colour string '#AARRGGBB' is the tuple <<a,r,g,b>> *)
(* of its four bytes; an RGBA tuple of floats is counted in 1/255.         *)
(***************************************************************************)
to_gradient(red, green, blue) ==
  <<255, (red * 255) \div 100, (green * 255) \div 100, (blue * 255) \div 100>>

from_gradient(color) == <<color[2], color[3], color[4], 255>>

\* segment data of matplotlib's 'gist_rainbow': position (thousandths) and
\* red, green, blue (hundredths)
GistRainbowData ==
  << <<0, 100, 0, 16>>, <<30, 100, 0, 0>>, <<215, 100, 100, 0>>,
     <<400, 0, 100, 0>>, <<586, 0, 100, 100>>, <<770, 0, 0, 100>>,
     <<954, 100, 0, 100>>, <<1000, 100, 0, 75>> >>

\* gradient_colors of AppWindow.__init__
InitialGradient ==
  [i \in 1..Len(GistRainbowData) |->
     <<GistRainbowData[i][1],
       to_gradient(GistRainbowData[i][2], GistRainbowData[i][3], GistRainbowData[i][4])>>]

\* gradients the gradient editor hands over after an edit
GradientInputs ==
  { << <<0, <<255, 255, 0, 0>>>>, <<1000, <<128, 0, 0, 255>>>>, <<500, <<255, 0, 255, 0>>>> >> }

RECURSIVE InsertByPos(_, _)
InsertByPos(s, e) ==
  IF s = <<>> THEN <<e>>
  ELSE IF e[1] < s[Len(s)][1] THEN Append(InsertByPos(SubSeq(s, 1, Len(s) - 1), e), s[Len(s)])
  ELSE Append(s, e)

\* sorted(gradient, key=lambda x: x[0]): stable, by position
RECURSIVE SortedByPos(_)
SortedByPos(s) ==
  IF s = <<>> THEN <<>>
  ELSE InsertByPos(SortedByPos(SubSeq(s, 1, Len(s) - 1)), s[Len(s)])

LutSize == 256

\* LinearSegmentedColormap.from_list('custom', gradient): the stop list the
\* 256-entry lookup table is interpolated from
Colormap(g) == SortedByPos([i \in 1..Len(g) |-> <<g[i][1], from_gradient(g[i][2])>>])

\* cmap(bidx / num_rings): entry int(x * 256) of the lookup table
CmapSample(cmap, bidx, num_rings) ==
  [stops |-> cmap, index |-> (bidx * LutSize) \div num_rings]

(***************************************************************************)
(* Exact rationals                                                         *)
(***************************************************************************)
RECURSIVE GCD(_, _)
GCD(a, b) == IF b = 0 THEN a ELSE GCD(b, a % b)

Abs(a) == IF a < 0 THEN -a ELSE a

Rat(n, d) == LET g == GCD(Abs(n), d) IN <<n \div g, d \div g>>

RatLeq(a, b) == a[1] * b[2] <= b[1] * a[2]

Zero == <<0, 1>>

(***************************************************************************)
(* np.linspace(start, stop, num) for start, stop in hundredths             *)
(***************************************************************************)
LinspaceDiv(num) == IF num > 1 THEN num - 1 ELSE 1

linspace(start, stop, num) ==
  [i \in 1..num |-> Rat(start * LinspaceDiv(num) + (i - 1) * (stop - start), LinspaceDiv(num))]

\* a[lo:] = src and a[lo:hi] = src on a one-dimensional array (0-based lo, hi)
SliceLen(a, lo, hi) ==
  LET h == IF hi > Len(a) THEN Len(a) ELSE hi
  IN IF h > lo THEN h - lo ELSE 0

SliceAssign(a, lo, hi, src) ==
  LET n == SliceLen(a, lo, hi)
  IN IF Len(src) = n
       THEN [ok |-> TRUE, arr |-> [i \in 1..Len(a) |-> IF i > lo /\ i <= lo + n THEN src[i - lo] ELSE a[i]]]
     ELSE IF Len(src) = 1
       THEN [ok |-> TRUE, arr |-> [i \in 1..Len(a) |-> IF i > lo /\ i <= lo + n THEN src[1] ELSE a[i]]]
     ELSE [ok |-> FALSE, arr |-> a]

\* linspace(...)[1:-1]
Inner(s) == IF Len(s) <= 2 THEN <<>> ELSE SubSeq(s, 2, Len(s) - 1)

(***************************************************************************)
(* The offset schedule of redraw; rot_rings is the doubled value           *)
(***************************************************************************)
zeros(n) == [i \in 1..n |-> Zero]

Offsets_ramp(rot_rings, rot_offset) ==
  IF rot_rings - 2 < 0 THEN [ok |-> FALSE, arr |-> <<>>]
  ELSE LET half == rot_rings \div 2
           rise == SliceAssign(zeros(rot_rings - 2), 0, half, linspace(0, rot_offset, half))
           fall == SliceAssign(rise.arr, half, rot_rings - 2, Inner(linspace(0, rot_offset, half)))
       IN IF rise.ok THEN fall ELSE rise

Offsets(rot_rings, rot_offset) ==
  IF rot_rings - 2 < 0 THEN [ok |-> FALSE, arr |-> <<>>]
  ELSE LET half == rot_rings \div 2
           rise == SliceAssign(zeros(rot_rings - 2), 0, half, linspace(0, rot_offset, half))
           fall == SliceAssign(rise.arr, half, rot_rings - 2, Inner(linspace(rot_offset, 0, half)))
       IN IF rise.ok THEN fall ELSE rise

(***************************************************************************)
(* circle.  pi is taken as PiNum / PiDen.                                  *)
(***************************************************************************)
PiNum == 355
PiDen == 113

\* angle >= 2*pi, for angle = off + 2*pi*k/segs in [0, 4*pi)
GeTwoPi(a) == PiDen * a.off[1] * a.segs >= 200 * PiNum * a.off[2] * (a.segs - a.k)

\* angle % (2 * np.pi): turns full turns are taken off
Mod2Pi(a) == [off |-> a.off, k |-> a.k, segs |-> a.segs, turns |-> IF GeTwoPi(a) THEN 1 ELSE 0]

\* angle < np.pi, for a reduced angle
LtPi(a) ==
  PiDen * a.off[1] * a.segs < 100 * PiNum * a.off[2] * (a.segs - 2 * a.k + 2 * a.turns * a.segs)

\* the point x = cos(ang) * r, y = ysign * sqrt(r**2 - x**2)
circle(radius, angle) ==
  LET a == Mod2Pi(angle)
  IN [r |-> radius, ang |-> a, ysign |-> IF LtPi(a) THEN 1 ELSE -1]

(***************************************************************************)
(* squircle.  radius and width in hundredths, circle radii in 1/200.       *)
(***************************************************************************)
\* np.linspace(angle_offset, 2 * np.pi + angle_offset, segments + 1)
AngleLinspace(angle_offset, segments) ==
  [i \in 1..(segments + 1) |->
     [off |-> angle_offset, k |-> i - 1, segs |-> LinspaceDiv(segments + 1)]]

BumpRadius_swapped(radius, width, idx) ==
  IF idx % 2 = 1 THEN 2 * radius - width ELSE 2 * radius + width

BumpRadius(radius, width, idx) ==
  IF idx % 2 = 0 THEN 2 * radius - width ELSE 2 * radius + width

Close_open(pts) == pts

\* x.append(x[0]); y.append(y[0])
Close(pts) == Append(pts, pts[1])

squircle(radius, width, angle_offset, segments) ==
  LET angles == AngleLinspace(angle_offset, segments)
      pts == [i \in 1..segments |-> circle(BumpRadius(radius, width, i - 1), angles[i])]
  IN IF pts = <<>> THEN [ok |-> FALSE, pts |-> <<>>]
     ELSE [ok |-> TRUE, pts |-> Close(pts)]

(***************************************************************************)
(* AppWindow.redraw                                                        *)
(***************************************************************************)
RingRadius_next(rad_offset, bidx) == 100 + rad_offset * (bidx + 1)

\* radius=1 + (rad_offset * bidx), in hundredths
RingRadius(rad_offset, bidx) == 100 + rad_offset * bidx

ScheduleIndex_shift(bidx, rot_rings) == (bidx + 1) % (rot_rings - 2)

\* bidx % (rot_rings - 2)
ScheduleIndex(bidx, rot_rings) == bidx % (rot_rings - 2)

\* one pass of the plotting loop: squircle, cmap, ax.plot
Plot(v, offs, cmap, bidx) ==
  IF 2 * v.rot_rings - 2 = 0 THEN [err |-> "ZeroDivisionError", line |-> <<>>]
  ELSE LET sq == squircle(RingRadius(v.rad_offset, bidx), v.bump_size,
                          offs[ScheduleIndex(bidx, 2 * v.rot_rings) + 1], v.num_bumps * 2)
       IN IF sq.ok
            THEN [err |-> "none",
                  line |-> [pts |-> sq.pts, color |-> CmapSample(cmap, bidx, v.num_rings)]]
          ELSE [err |-> "IndexError", line |-> <<>>]

AxClear_keep(lines) == lines

\* self.ax.clear()
AxClear(lines) == <<>>

Min(S) == CHOOSE m \in S : \A n \in S : m <= n

\* the state redraw leaves behind, given the state it starts from
redraw(v, g, prevOffsets, prevAx, prevCanvas) ==
  LET o == Offsets(2 * v.rot_rings, v.rot_offset)
  IN IF ~o.ok
       THEN [offsets |-> prevOffsets, ax |-> prevAx, canvas |-> prevCanvas, err |-> "ValueError"]
     ELSE
       LET cmap == Colormap(g)
           calls == [i \in 1..v.num_rings |-> Plot(v, o.arr, cmap, i - 1)]
           bad == {i \in 1..v.num_rings : calls[i].err # "none"}
           stop == IF bad = {} THEN v.num_rings + 1 ELSE Min(bad)
           lines == AxClear(prevAx) \o [i \in 1..(stop - 1) |-> calls[i].line]
       IN IF bad = {}
            THEN [offsets |-> o.arr, ax |-> lines, canvas |-> lines, err |-> "none"]
          ELSE [offsets |-> o.arr, ax |-> lines, canvas |-> prevCanvas, err |-> calls[stop].err]

(***************************************************************************)
(* The application                                                         *)
(***************************************************************************)
\* an exception that leaves a slot either aborts the process or is printed
\* and dropped, depending on the PyQt5 version
AfterSlot(e) == IF e = "none" THEN {"exec"} ELSE {"exec", "exit"}

Redrawn(v, g) ==
  \E r \in {redraw(v, g, offsets, ax, canvas)} :
     /\ offsets' = r.offsets
     /\ ax' = r.ax
     /\ canvas' = r.canvas
     /\ err' = r.err

UserInputs(f) ==
  CASE f = "num_bumps" -> 0..MaxBumps
    [] f = "num_rings" -> 0..MaxRings
    [] f = "rot_rings" -> 0..MaxRotRings
    [] f = "rot_offset" -> RotOffsetInputs
    [] f = "rad_offset" -> RadOffsetInputs
    [] f = "bump_size" -> BumpSizeInputs

\* ControlPanel.update: _vals is rebuilt from all six spin boxes
update(w) == [f \in Fields |-> w[f]]

\* the values spin box f can be brought to
Reachable(f) == {Clamp(f, v) : v \in UserInputs(f)}

\* the widgets after the user edits spin box f
Edited(f, v) == [widgets EXCEPT ![f] = v]

\* a spin box's valueChanged -> ControlPanel.update -> numbersChanged -> redraw
SpinChanged(f, v) ==
  /\ pc = "exec"
  /\ v # widgets[f]
  /\ widgets' = Edited(f, v)
  /\ vals' = update(widgets')
  /\ Redrawn(vals', gradient)
  /\ pc' \in AfterSlot(err')
  /\ UNCHANGED <<gradient, lastSave, msg>>

\* the gradient editor's gradientChanged -> redraw
GradientChanged(g) ==
  /\ pc = "exec"
  /\ g # gradient
  /\ gradient' = g
  /\ Redrawn(vals, gradient')
  /\ pc' \in AfterSlot(err')
  /\ UNCHANGED <<widgets, vals, lastSave, msg>>

\* AppWindow._save.  outcome: the file dialog was cancelled (fname empty, the
\* handler returns at once), savefig wrote the file, or savefig raised.
\* lastSave and msg describe the last call that got as far as savefig.
SaveOutcomes == {"cancelled", "saved", "failed"}

SaveMessage(outcome) == IF outcome = "saved" THEN "Save Complete" ELSE ""

Save(outcome) ==
  /\ pc = "exec"
  /\ IF outcome = "cancelled"
       THEN UNCHANGED <<lastSave, msg, err, pc>>
     ELSE /\ lastSave' = outcome
          /\ msg' = SaveMessage(outcome)
          /\ err' = IF outcome = "failed" THEN "OSError" ELSE "none"
          /\ pc' \in AfterSlot(err')
  /\ UNCHANGED <<widgets, vals, gradient, offsets, ax, canvas>>

\* self.redraw() at the end of AppWindow.__init__
FirstRedraw ==
  /\ pc = "construct"
  /\ Redrawn(vals, gradient)
  /\ pc' = IF err' = "none" THEN "exec" ELSE "exit"
  /\ UNCHANGED <<widgets, vals, gradient, lastSave, msg>>

Constructed(v, g) == redraw(v, g, <<>>, <<>>, <<>>)

\* the application once AppWindow() has returned and the event loop runs
Init ==
  /\ vals = DefaultVals
  /\ widgets = ControlPanelInit(vals)
  /\ gradient = InitialGradient
  /\ offsets = Constructed(vals, gradient).offsets
  /\ ax = Constructed(vals, gradient).ax
  /\ canvas = Constructed(vals, gradient).canvas
  /\ err = Constructed(vals, gradient).err
  /\ pc = "exec"
  /\ lastSave = "none"
  /\ msg = ""

Next ==
  \/ \E f \in Fields : \E v \in Reachable(f) : SpinChanged(f, v)
  \/ \E g \in GradientInputs \cup {InitialGradient} : GradientChanged(g)
  \/ \E o \in SaveOutcomes : Save(o)

Spec == Init /\ [][Next]_vars

\* The generator applied to any parameter dict: AppWindow.__init__ with an
\* arbitrary vals dict, stopped before its closing self.redraw()
ValsInputs ==
  [num_bumps : 0..MaxBumps, num_rings : 0..MaxRings, rot_rings : 0..MaxRotRings,
   rot_offset : RotOffsetInputs, rad_offset : RadOffsetInputs, bump_size : BumpSizeInputs]

InitGen ==
  /\ vals \in ValsInputs
  /\ widgets = ControlPanelInit(vals)
  /\ gradient = InitialGradient
  /\ offsets = <<>>
  /\ ax = <<>>
  /\ canvas = <<>>
  /\ err = "none"
  /\ pc = "construct"
  /\ lastSave = "none"
  /\ msg = ""

NextGen == FirstRedraw

SpecGen == InitGen /\ [][NextGen]_vars

(***************************************************************************)
(* Properties                                                              *)
(***************************************************************************)
Segments(line) == Len(line.pts) - 1

RedrawErrors == {"ValueError", "ZeroDivisionError", "IndexError"}

\* C1: one pattern generation yields exactly num_rings polylines, each of
\* num_bumps * 2 + 1 points, and the last point of each equals its first.
C1_CountAndClosure ==
  /\ Len(canvas) = vals.num_rings
  /\ \A i \in 1..Len(canvas) :
       /\ Len(canvas[i].pts) = vals.num_bumps * 2 + 1
       /\ canvas[i].pts[Len(canvas[i].pts)] = canvas[i].pts[1]

C1_Witness ==
  /\ vals.num_rings = 2
  /\ vals.num_bumps = 3
  /\ Len(canvas) = 2
  /\ Len(canvas[2].pts) = 7

\* C2: ring i (0-based, in increasing order on the canvas) has radius
\* 1 + rad_offset * i, width bump_size, num_bumps * 2 segments, the angular
\* offset schedule[i mod (period - 2)] and the colour sampled at i / num_rings.
C2_RingArguments ==
  /\ Len(offsets) = 2 * vals.rot_rings - 2
  /\ \A i \in 0..(Len(canvas) - 1) :
       LET line == canvas[i + 1]
       IN /\ line.pts[1].r = 2 * (100 + vals.rad_offset * i) - vals.bump_size
          /\ line.pts[2].r = 2 * (100 + vals.rad_offset * i) + vals.bump_size
          /\ Segments(line) = vals.num_bumps * 2
          /\ line.pts[1].ang.off = offsets[(i % Len(offsets)) + 1]
          /\ line.color.stops = Colormap(gradient)
          /\ line.color.index * vals.num_rings <= i * LutSize
          /\ i * LutSize < (line.color.index + 1) * vals.num_rings

C2_Witness ==
  /\ vals.num_rings = 2
  /\ vals.rot_rings = 10
  /\ vals.rot_offset = 628
  /\ Len(canvas) = 2
  /\ canvas[2].pts[1].ang.off = <<628, 9>>
  /\ canvas[2].pts[1].r = 2 * (100 + vals.rad_offset) - vals.bump_size
  /\ canvas[2].color.index = 128

ExampleVals ==
  [num_bumps |-> 4, num_rings |-> 2, rot_rings |-> 2,
   rot_offset |-> 0, rad_offset |-> 10, bump_size |-> 10]

C4_SquirclePoints ==
  /\ \A i \in 0..(Len(canvas) - 1) :
       LET line == canvas[i + 1]
           segs == Segments(line)
       IN /\ \A k \in 0..(segs - 1) :
               /\ line.pts[k + 1].ang.off = line.pts[1].ang.off
               /\ line.pts[k + 1].ang.k = k
               /\ line.pts[k + 1].ang.segs = segs
               /\ line.pts[k + 1].r =
                    IF k % 2 = 0 THEN 2 * (100 + vals.rad_offset * i) - vals.bump_size
                    ELSE 2 * (100 + vals.rad_offset * i) + vals.bump_size
          /\ line.pts[segs + 1] = line.pts[1]
  /\ vals = ExampleVals =>
       /\ Len(canvas) = 2
       /\ [k \in 1..9 |-> canvas[1].pts[k].r] = <<190, 210, 190, 210, 190, 210, 190, 210, 190>>
       /\ [k \in 1..9 |-> canvas[2].pts[k].r] = <<210, 230, 210, 230, 210, 230, 210, 230, 210>>
       /\ \A i \in 1..2 : \A k \in 1..8 :
            /\ canvas[i].pts[k].ang.off = Zero
            /\ canvas[i].pts[k].ang.k = k - 1
            /\ canvas[i].pts[k].ang.segs = 8

C4_Witness ==
  /\ vals = ExampleVals
  /\ Len(canvas) = 2
  /\ Len(canvas[1].pts) = 9
  /\ canvas[1].pts[2].r = 210

\* C5: whatever the history of parameter changes, gradient changes and
\* saves, the rings on the canvas are exactly those one generation from the
\* current parameters and gradient yields on an empty canvas.
C5_CanvasIsFunctionOfInputs ==
  /\ canvas = redraw(vals, gradient, <<>>, <<>>, <<>>).canvas
  /\ ax = canvas

C5_Witness ==
  /\ lastSave = "saved"
  /\ vals # DefaultVals
  /\ vals.num_rings = 2
  /\ gradient # InitialGradient
  /\ Len(canvas) = 2

\* C6: generating from an invalid parameter combination (doubled period
\* below 4, num_bumps below 2 or num_rings below 1) fails with a validation
\* error before anything is drawn.
InvalidVals(v) == 2 * v.rot_rings < 4 \/ v.num_bumps < 2 \/ v.num_rings < 1

C6_FailsFast ==
  (pc # "construct" /\ InvalidVals(vals)) =>
     (err = "ValidationError" /\ pc = "exit" /\ ax = <<>> /\ canvas = <<>>)

\* C7: with a period of 4 (rot_rings 2) the schedule is exactly
\* [0, rot_offset]: even rings get offset 0, odd rings get rot_offset.
C7_PeriodFour ==
  vals.rot_rings * 2 = 4 =>
    /\ offsets = <<Zero, <<vals.rot_offset, 1>> >>
    /\ \A i \in 0..(Len(canvas) - 1) :
         canvas[i + 1].pts[1].ang.off =
           IF i % 2 = 0 THEN Zero ELSE <<vals.rot_offset, 1>>

C7_Witness ==
  /\ vals.rot_rings = 2
  /\ vals.rot_offset = 628
  /\ Len(canvas) = 2
  /\ canvas[2].pts[1].ang.off = <<628, 1>>

\* C8: a save that fails on an unwritable path shows a failure notification
\* and no 'Save Complete', leaves the pattern state alone and leaves the
\* application running.
C8_SaveFailureNotified ==
  lastSave = "failed" =>
    /\ msg \notin {"", "Save Complete"}
    /\ pc = "exec"

\* C9: the stored parameters always satisfy num_bumps >= 2, num_rings >= 1,
\* rot_rings >= 2; so the schedule is non-empty, the modulus rot_rings - 2 is
\* never zero and the index stays inside the schedule, no redraw raises, and
\* every ring has an even segment count >= 4 whose inner / outer alternation
\* carries across the closing segment.
C9_ParametersStayValid ==
  /\ vals.num_bumps >= 2
  /\ vals.num_rings >= 1
  /\ vals.rot_rings >= 2
  /\ offsets # <<>>
  /\ Len(offsets) = 2 * vals.rot_rings - 2
  /\ err \notin RedrawErrors
  /\ \A i \in 1..Len(canvas) :
       LET segs == Segments(canvas[i])
       IN /\ segs >= 4
          /\ segs % 2 = 0
          /\ canvas[i].pts[segs].r = canvas[i].pts[2].r
          /\ canvas[i].pts[segs + 1].r = canvas[i].pts[1].r
          /\ canvas[i].pts[segs].r # canvas[i].pts[segs + 1].r

C9_Witness ==
  /\ vals.num_bumps = 2
  /\ vals.num_rings = 1
  /\ vals.rot_rings = 2
  /\ Len(canvas) = 1
  /\ Segments(canvas[1]) = 4

\* C10: every radius squircle hands to circle is >= 0.
C10_RadiiNonNegative ==
  \A i \in 1..Len(canvas) : \A k \in 1..Len(canvas[i].pts) : canvas[i].pts[k].r >= 0

====
